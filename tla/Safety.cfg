SPECIFICATION Spec
CONSTANTS
    Process = {p1, p2, p3}
    MAX_SESSION_IDS = 2
    Window = {w1, w2}
    NoWindow = NoWindow
    NoPID = NoPID
    CanCrash = TRUE
    PIDMayFail = TRUE
    KillMayFail = FALSE
    PromptCleanUp = TRUE
    HopperInUse = TRUE
SYMMETRY Symmetry
INVARIANT TypeOK
INVARIANT OneServerPerTable
INVARIANT ServiceInv
INVARIANT SharedMemoryAgrees
INVARIANT CriticalSectionsExclude
PROPERTY CleanUpSparesTheLiving
PROPERTY ImplementsTableService
