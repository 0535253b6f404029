SPECIFICATION Spec
CONSTANTS
  Adapters = {t}
  Sockets = {w1, w2}
  Bridges = {b1, b2}
  Seats = {s1}
  None = None
  MaxBatch = 2
  MaxFed = 3
INVARIANTS LinkHolds ToyBytes SeatHolds
PROPERTIES WritesLive BusyEnds
