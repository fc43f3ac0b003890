SPECIFICATION Spec
CONSTANTS
    Process = {p1, p2, p3}
    MAX_SESSION_IDS = 3
    Window = {w1}
    NoWindow = NoWindow
    NoPID = NoPID
    UserInterferes = FALSE
    Preemption = TRUE
    SlowQuit = FALSE
SYMMETRY Symmetry
PROPERTY KeepsOneAvailable
