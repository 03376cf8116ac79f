\* Two clients at once.
SPECIFICATION Spec
CONSTANTS
  Sessions = {s1, s2}
  NoThread = NoThread
  Commands = {"Init", "SendTorque"}
INVARIANTS
  LockedExclusive
SYMMETRY MCSymmetry
