SPECIFICATION CodeSpec
CONSTANTS
  Sockets = {v, w, x}
  None = None
  TTL = 2
  TOUCH_MS = 2
  INTERVAL_MS = 1
  MaxNow = 6
  MaxBytes = 2
  Modes = {"hosted", "direct"}
  Undefined = Undefined
  MaxOpened = 3
  MaxBridges = 2
  MaxDown = 1
INVARIANTS PairRight RowRight PageHolds
SYMMETRY Symmetry
