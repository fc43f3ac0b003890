----------------------------- MODULE SharedMem -----------------------------
(***************************************************************************)
(* CSharedMem: the memory segment that all OpenHoldem processes of one     *)
(* machine share.  Its arrays have one slot per session ID.  Nothing in    *)
(* the code locks it (the critical section of CSharedMem lives in each     *)
(* process), so every operator below is one access by one process and the  *)
(* modules that extend this one interleave them.                           *)
(***************************************************************************)
EXTENDS Integers, FiniteSets

CONSTANTS
    Process,         \* the OpenHoldem processes, named by their process IDs
    MAX_SESSION_IDS, \* the number of slots
    Window,          \* the window handles poker tables can have
    NoWindow,        \* the handle NULL
    NoPID            \* the process ID 0, "unavailable"

Slots == 0 .. MAX_SESSION_IDS - 1

ASSUME SlotsAssumption == MAX_SESSION_IDS \in Nat \ {0}
ASSUME NullAssumption == NoWindow \notin Window /\ NoPID \notin Process

VARIABLES
    attached_poker_windows,     \* slot -> table its instance serves
    openholdem_PIDs             \* slot -> process that claimed the slot

shm == <<attached_poker_windows, openholdem_PIDs>>

SharedMemTypeOK ==
    /\ attached_poker_windows \in [Slots -> Window \union {NoWindow}]
    /\ openholdem_PIDs \in [Slots -> Process \union {NoPID}]

SharedMemInit ==
    /\ attached_poker_windows = [s \in Slots |-> NoWindow]
    /\ openholdem_PIDs = [s \in Slots |-> NoPID]

-----------------------------------------------------------------------------
(* What an instance reads.                                                 *)

\* A loop that forgets the last slot.
PokerWindowAttachedOffByOne(w) ==
    \E s \in Slots \ {MAX_SESSION_IDS - 1} : attached_poker_windows[s] = w

PokerWindowAttached(w) == \E s \in Slots : attached_poker_windows[s] = w

ConnectedSlots == {s \in Slots : attached_poker_windows[s] # NoWindow}

NBotsPresent == Cardinality({s \in Slots : openholdem_PIDs[s] # NoPID})

NTablesConnected == Cardinality(ConnectedSlots)

NUnoccupiedBots == NBotsPresent - NTablesConnected

\* The lowest slot of a set, or -1 (kUndefined).
Lowest(S) ==
    IF S = {} THEN -1 ELSE CHOOSE s \in S : \A r \in S : s <= r

LowestConnectedSessionID == Lowest(ConnectedSlots)

\* "open" is the set of windows that exist, which IsWindow() asks for.
LowestUnconnectedSessionID(open) ==
    Lowest({s \in Slots : /\ openholdem_PIDs[s] # NoPID
                          /\ attached_poker_windows[s] \notin open})

\* "running" is the set of processes the operating system still runs.
IsDeadOpenHoldemProcess(s, running) ==
    openholdem_PIDs[s] # NoPID /\ openholdem_PIDs[s] \notin running

-----------------------------------------------------------------------------
(* What an instance writes.                                                *)

MarkPokerWindowAsAttached(s, w) ==
    attached_poker_windows' = [attached_poker_windows EXCEPT ![s] = w]

\* GetCurrentProcessId() may return 0; the slot then holds 0 as well.
AquireOwnProcessID(s, pid) ==
    openholdem_PIDs' = [openholdem_PIDs EXCEPT ![s] = pid]

\* A clean-up that forgets the table of the dead process.
CleanUpForgetsWindow(S) ==
    /\ openholdem_PIDs' =
           [s \in Slots |-> IF s \in S THEN NoPID ELSE openholdem_PIDs[s]]
    /\ UNCHANGED attached_poker_windows

CleanUpProcessMemory(S) ==
    /\ openholdem_PIDs' =
           [s \in Slots |-> IF s \in S THEN NoPID ELSE openholdem_PIDs[s]]
    /\ attached_poker_windows' =
           [s \in Slots |-> IF s \in S THEN NoWindow
                            ELSE attached_poker_windows[s]]
=============================================================================
