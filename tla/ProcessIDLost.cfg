SPECIFICATION FairSpec
CONSTANTS
    Process = {p1, p2}
    MAX_SESSION_IDS = 2
    Window = {w1}
    NoWindow = NoWindow
    NoPID = NoPID
    CanCrash = FALSE
    PIDMayFail = TRUE
    KillMayFail = FALSE
    PromptCleanUp = TRUE
    HopperInUse = FALSE
PROPERTY ProcessIDGetsAcquired
