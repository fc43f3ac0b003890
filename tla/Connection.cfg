SPECIFICATION FairSpec
CONSTANTS
    Window = {w1, w2}
    NoWindow = NoWindow
    Collisions = FALSE
    PromptDelete = TRUE
    InstanceEnds = TRUE
INVARIANT TypeOK
INVARIANT AutoplayerNeedsTable
INVARIANT NoFreeze
INVARIANT BitmapsWhileConnected
PROPERTY GoneTableGetsLeft
