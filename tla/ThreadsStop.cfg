SPECIFICATION Spec
CONSTANTS
    Window = {w1, w2}
    NoWindow = NoWindow
    Collisions = FALSE
    PromptDelete = TRUE
    InstanceEnds = TRUE
CHECK_DEADLOCK FALSE
INVARIANT ThreadsStopFirst
