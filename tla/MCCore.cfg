\* Every kind of speed and of operator limit, a reliable driver.
SPECIFICATION FairSpec
CONSTANTS
  Modes = {0, 1}
  Currents = {0, 5}
  Setpoints = {0}
  Speeds <- MCSpeeds
  SpeedLimits = {0, 1000, 5000, NotFinite}
  NotFinite = NotFinite
  BootConfigs <- MCShipped
  MayFail = {}
INVARIANTS
  TypeOK
  TxOnlyInNormal
PROPERTIES
  RxOnlySilent
  FreshLimit
  SessionEnds
