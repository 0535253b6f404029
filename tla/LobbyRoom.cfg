SPECIFICATION Spec
CONSTANTS
  Ids = {i1, i2, i3}
  Attempts = {1, 2}
  None = None
  READY_MS = 1
  RESERVE_MS = 2
  MaxConnections = 3
SYMMETRY Symmetry
INVARIANTS RoomHolds PromptHolds PictureHolds ScreensAgree
PROPERTY SeatKept
