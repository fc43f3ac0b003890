SPECIFICATION FairSpec
CONSTANTS
    Cards = {c1, c2}
    Required = {3}
    UpdateInterval = 2
    FrameDelay = 2
    HeartbeatsToPause = 4
    WakeBeats = 1
    CasinoBeats = 2
    MaxDisturbances = 1
    Disturbances = {"popup", "redraw"}
    AtomicSteps = TRUE
INVARIANT TypeOK
INVARIANT DecidesOnFinishedPrwin
INVARIANT ActsOncePerTurn
PROPERTY TurnGetsAnswered
