SPECIFICATION TelemetrySpec
CONSTANTS
    Hottest = 205
    Raws <- Raws_MC
    Unsaid = Unsaid
INVARIANTS
    ShownIsSaid
