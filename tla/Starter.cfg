SPECIFICATION Spec
CONSTANTS
    Process = {p1, p2, p3, p4}
    MAX_SESSION_IDS = 3
    Window = {w1, w2}
    NoWindow = NoWindow
    NoPID = NoPID
    UserInterferes = FALSE
    Preemption = FALSE
    SlowQuit = FALSE
SYMMETRY Symmetry
INVARIANT TypeOK
INVARIANT OneStartAtATime
INVARIANT OneSurvives
PROPERTY KeepsOneAvailable
