SPECIFICATION PartsSpec
CONSTANTS
    Message <- Message_MC
    Layout <- Layout_MC
    Raw <- Raw_MC
    Hottest = 77
    Raws <- Raws_MC
    Unsaid = Unsaid
    Modes = {"currents", "speed"}
    Gears = {"R"}
    Currents = {1234, NotANumber}
    Speeds = {4800}
    Torques = {0}
    MaxTorques = {350}
    Reports = {300, 200}
    MaxUplink = 3
    NotANumber = NotANumber
    Nothing = Nothing
    ByHand <- ByHand_MC
    Infinite = Infinite
    Unknown = Unknown
    txArr <- txArr_MC
    cycleTime <- cycleTime_MC
    rxArr <- rxArr_MC
    RxPacket <- RxPacket_MC
    SendSize = 3
    ReceivedSize = 3
    Object = {o1, o2}
    MaxRefs = 4
    DestroyUnused = FALSE
    dataSizes = {8, 12, 16, 24}
    maxSamples = 3
    hardLimitSamples = 2
    Counts = {0, 1, 3}
    Steps = {5}
    Late = 5
    Hold = 25
    MaxTurns = 2
    Nobody = Nobody
INVARIANTS
    TypeOK
    SignalsSayTheirValue
    RoundTrip
    ShownIsSaid
    PathTypeOK
    FileIsRead
    NoneLost
    LibraryReady
    SamplesAsTaken
    TxTypeOK
    KeepAlive
PROPERTIES
    CurrentAsAsked
    ControlAsAsked
    LimitsAsSet
    RingsAreFifos
