SPECIFICATION EndSpec
CONSTANTS
  Players = {0, 1, 2}
  Tied = 255
  None = None
  RuleRounds = 4
  N = 2
  SEEDS = {1}
  OUTBOX_LIMIT = 2
  HEADROOM = 1
  GARBAGE_LIMIT = 1
  SETTLE_MS = 1
  PREPARE_MS = 1
  COUNTDOWN_MS = 1
  RESULT_MS = 1
  MaxRounds = 3
  Chatty = {0}
  Attackers = {}
  Leavers = {0, 1}
  Ids = {a, b}
  Attempts = {1, 2}
  READY_MS = 2
  LobbyReserve = 2
  MaxConnections = 2
  Modes = {"hosted"}
  RoomReserve = 1
  Slow = {a}
  MaxSockets = 4
  MaxPlugs = 2
  Models = {"CH34x", "CP210x", "FTDI", "PL2303", "CDC-ACM"}
  BaudRate = 460800
  Depth = 2
  MaxTransfer = 2
  MaxOpens = 2
  MaxIn = 2
  MaxOut = 3
CHECK_DEADLOCK FALSE
INVARIANTS RulesKept UsbRight
PROPERTIES PhasesEnd NothingHangs RoomGoesOn QuietAfterClose TasksEnd
