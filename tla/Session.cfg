SPECIFICATION FairSpec
CONSTANTS
  Data = {d}
  READY = READY
  BEAT = BEAT
  Nonces = {n1, n2}
  NoNonce = NoNonce
  HostNonce = n2
  QUEUE_LIMIT = 2
  SEQ_LIMIT = 2
  HELLO_MS = 1
  RETRY_MS = 1
  BEAT_MS = 1
  SILENCE_MS = 1
  LineLimit = 1
  ToyLimit = 2
INVARIANT AckedMeansHeard
PROPERTIES ToToyReliable ToHostReliable WaitingEnds
