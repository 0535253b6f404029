SPECIFICATION Spec
CONSTANTS
  Ids = {a, b}
  Modes = {"hosted", "direct"}
  None = None
  RESERVE_MS = 1
  Slow = {a, b}
  MaxSockets = 3
  MaxPlugs = 3
INVARIANTS ToysHold SessionPlaysOnce
SYMMETRY Symmetry
