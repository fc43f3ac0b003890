SPECIFICATION FairSpec
CONSTANTS
    Process = {p1, p2}
    MAX_SESSION_IDS = 2
    Window = {w1}
    NoWindow = NoWindow
    NoPID = NoPID
    UserInterferes = TRUE
    Preemption = TRUE
    SlowQuit = TRUE
PROPERTY FreeInstanceComes
