\* Two clients at once.
SPECIFICATION Spec
CONSTANTS
  Sessions = {s1, s2}
  NoThread = NoThread
  Commands = {"Init", "Stop", "SendTorque"}
INVARIANTS
  AllGoneStopped
SYMMETRY MCSymmetry
