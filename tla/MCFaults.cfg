\* Every CAN_Write may be refused; setpoints too.
SPECIFICATION Spec
CONSTANTS
  Modes = {0, 1}
  Currents = {0, 5}
  Setpoints = {0, 40}
  Speeds <- MCFewSpeeds
  SpeedLimits = {1000}
  NotFinite = NotFinite
  BootConfigs <- MCShipped
  MayFail = {"control", "current", "resolver"}
INVARIANTS
  QuietWhenBlocked
  EnableWasAsked
  NothingUnasked
  SavedConfigSafe
PROPERTIES
  FreshLimit
  ImplementsGate
