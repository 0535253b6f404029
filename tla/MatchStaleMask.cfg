SPECIFICATION Spec
CONSTANTS
  N = 3
  SEEDS = {1}
  OUTBOX_LIMIT = 2
  HEADROOM = 1
  GARBAGE_LIMIT = 2
  SETTLE_MS = 1
  PREPARE_MS = 1
  COUNTDOWN_MS = 1
  RESULT_MS = 1
  MaxRounds = 1
  Chatty = {2}
  Attackers = {0}
  Leavers = {2}
INVARIANT MaskAgreement
