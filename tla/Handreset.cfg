SPECIFICATION Spec
CONSTANTS
    MaxDelay = 1
    SpreadBeats = 2
    HandSeconds = 10
    Popup <- Popups
    MisleadingSmallBlind = FALSE
    DigitsConfigured = TRUE
INVARIANT TypeOK
INVARIANT KnowsTheHand
INVARIANT AnnouncedWhenSeen
PROPERTY OneHandresetPerHand
