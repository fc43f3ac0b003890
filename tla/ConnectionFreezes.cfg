SPECIFICATION Spec
CONSTANTS
    Window = {w1, w2}
    NoWindow = NoWindow
    Collisions = TRUE
    PromptDelete = TRUE
    InstanceEnds = FALSE
INVARIANT NoFreeze
