SPECIFICATION Spec
CONSTANTS
    Process = {p1, p2, p3}
    MAX_SESSION_IDS = 2
    Window = {w1, w2}
    NoWindow = NoWindow
    NoPID = NoPID
    CanCrash = TRUE
    PIDMayFail = FALSE
    KillMayFail = TRUE
    PromptCleanUp = TRUE
    HopperInUse = TRUE
SYMMETRY Symmetry
INVARIANT OneServerPerTable
