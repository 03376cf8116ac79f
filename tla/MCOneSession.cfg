\* One connection at a time, reconnecting.
SPECIFICATION FairSpec
CONSTANTS
  Sessions = {s1}
  NoThread = NoThread
  Commands = {"Init", "Stop", "Read2", "ResolverRxInit", "Save_Cfg", "SendTorque"}
INVARIANTS
  TypeOK
  OneDriver
  
PROPERTIES
  
  TeardownEnds
  ImplementsGate
