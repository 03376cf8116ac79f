\* An INI file that enables current control.
SPECIFICATION Spec
CONSTANTS
  Modes = {0, 1}
  Currents = {0, 5}
  Setpoints = {0}
  Speeds = {0}
  SpeedLimits = {1000}
  NotFinite = NotFinite
  BootConfigs <- MCEdited
  MayFail = {}
INVARIANTS
  EnableWasAsked
