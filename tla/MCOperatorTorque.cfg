SPECIFICATION PathSpec
CONSTANTS
    Modes = {"currents", "torque"}
    Gears = {"D"}
    Currents = {0}
    Speeds = {0}
    Torques = {80}
    MaxTorques = {350}
    Reports = {}
    MaxUplink = 3
    NotANumber = NotANumber
    Nothing = Nothing
PROPERTIES
    TorqueAsAsked
