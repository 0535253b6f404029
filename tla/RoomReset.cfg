SPECIFICATION Spec
CONSTANTS
  Ids = {a, b}
  Modes = {"hosted"}
  None = None
  RESERVE_MS = 1
  Slow = {a}
  MaxSockets = 2
  MaxPlugs = 2
PROPERTY ResultBeforeReset
