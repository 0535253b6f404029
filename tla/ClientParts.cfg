SPECIFICATION ClientSpec
CONSTANTS
  CHUNK_MAX_LENGTH = 2
  Lengths = {1, 5}
  MaxLine = 3
  Kept = 1
  StreamPackets = 2
  StreamFaults = 1
  MaxResets = 1
  MaxQueuedBytes = 2
  MaxPieces = 10
  Items = {1, 2}
  Catalogue = {1, 2}
  MaxSessions = 2
  MaxPackets = 3
  Words = {0, 2}
  Garbage = {0, 3}
  Bursts = {1, 9, 10}
  MaxFrames = 2
  FrameFaults = 1
  MaxNoise = 1
  MAX_DECOMPRESSED = 5
CHECK_DEADLOCK FALSE
INVARIANTS PacketsRight OutcomeTrue ShownIsCurrent PagesAgree WholeFramesArrive CodecsRead
