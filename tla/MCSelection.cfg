SPECIFICATION PanelSpec
CHECK_DEADLOCK FALSE
CONSTANTS
    Message <- Message_MC
    SignalsOf <- SignalsOf_MC
    Lines <- Lines_MC
    KeyOf <- KeyOf_MC
    Defaults <- Defaults_MC
    MaxInFlight = 2
INVARIANTS
    PanelAgrees
    NothingHidden
PROPERTIES
    Confirmed
    Settles
    StopReturns
    Over
